---- MODULE Spec2Model ----
(***************************************************************************)
(* Construction of the ResNetV1b family (riptide/models/resnetv1b.py):     *)
(* residual blocks, the stage builder _make_layer, the network assembler  *)
(* ResNetV1b.__init__, the forward computation ResNetV1b.call and the      *)
(* named variant constructors.  Layers are records of their constructor    *)
(* arguments; a Python list ['name', l1, ..] is a record holding its name  *)
(* and its items; a tensor is the sequence of operations applied to it.    *)
(***************************************************************************)
EXTENDS Integers, Sequences, FiniteSets, TLC

VARIABLES pc, variant, args, model, call, x

vars == <<pc, variant, args, model, call, x>>

(* ------------------------------ bounds -------------------------------- *)

\* per-stage block counts of a direct ResNetV1b(block, layers, ...) call
MaxCount == 2
\* block counts, strides and dilations of a direct _make_layer call
MaxBlocks == 3
MaxStride == 2
MaxDilation == 4

(* --------------------------- layer primitives -------------------------- *)

None == [kind |-> "None"]

List(name, index, items) ==
    [kind |-> "list", name |-> name, index |-> index, items |-> items]

Conv2D(filters, kernel_size, strides, padding, dilation_rate, use_bias, data_format) ==
    [kind |-> "Conv2D", filters |-> filters, kernel_size |-> kernel_size,
     strides |-> strides, padding |-> padding, dilation_rate |-> dilation_rate,
     use_bias |-> use_bias, data_format |-> data_format]

norm_layer(gamma_initializer) ==
    [kind |-> "BatchNormalization", gamma_initializer |-> gamma_initializer]

Activation(fn) == [kind |-> "Activation", activation |-> fn]

AveragePooling2D(pool_size, strides, padding, data_format) ==
    [kind |-> "AveragePooling2D", pool_size |-> pool_size, strides |-> strides,
     padding |-> padding, data_format |-> data_format]

MaxPool2D(pool_size, strides, padding, data_format) ==
    [kind |-> "MaxPool2D", pool_size |-> pool_size, strides |-> strides,
     padding |-> padding, data_format |-> data_format]

GlobalAveragePooling2D(data_format) ==
    [kind |-> "GlobalAveragePooling2D", data_format |-> data_format]

Flatten == [kind |-> "Flatten"]

Dropout(rate) == [kind |-> "Dropout", rate |-> rate]

Dense(units) == [kind |-> "Dense", units |-> units]

(* ------------------------------ blocks --------------------------------- *)

BlockTypes == {"BasicBlockV1b", "BottleneckV1b"}

\* mutant: the bottleneck expansion taken as 2
expansion_Two(block) == IF block = "BasicBlockV1b" THEN 1 ELSE 2

expansion(block) == IF block = "BasicBlockV1b" THEN 1 ELSE 4

\* the arguments a block's __init__ was called with (kept with the block, so
\* that what the stage builder passed can be read back)
InitArgs(planes, strides, dilation, previous_dilation) ==
    [planes |-> planes, strides |-> strides, dilation |-> dilation, previous_dilation |-> previous_dilation]

BasicBlockV1b(planes, strides, dilation, downsample, previous_dilation, last_gamma, data_format) ==
    [block      |-> "BasicBlockV1b",
     conv1      |-> Conv2D(planes, 3, strides, "same", dilation, FALSE, data_format),
     bn1        |-> norm_layer("ones"),
     relu1      |-> Activation("relu"),
     conv2      |-> Conv2D(planes, 3, 1, "same", previous_dilation, FALSE, data_format),
     bn2        |-> norm_layer("ones"),
     relu2      |-> Activation("relu"),
     downsample |-> downsample,
     strides    |-> strides,
     init       |-> InitArgs(planes, strides, dilation, previous_dilation)]

BottleneckV1b(planes, strides, dilation, downsample, previous_dilation, last_gamma, data_format) ==
    [block      |-> "BottleneckV1b",
     conv1      |-> Conv2D(planes, 1, 1, "valid", 1, FALSE, data_format),
     bn1        |-> norm_layer("ones"),
     relu1      |-> Activation("relu"),
     conv2      |-> Conv2D(planes, 3, strides, "same", dilation, FALSE, data_format),
     bn2        |-> norm_layer("ones"),
     relu2      |-> Activation("relu"),
     conv3      |-> Conv2D(planes * 4, 1, 1, "valid", 1, FALSE, data_format),
     bn3        |-> IF ~last_gamma THEN norm_layer("ones") ELSE norm_layer("zeros"),
     relu3      |-> Activation("relu"),
     downsample |-> downsample,
     dilation   |-> dilation,
     strides    |-> strides,
     init       |-> InitArgs(planes, strides, dilation, previous_dilation)]

\* block(planes, strides, dilation=..., downsample=..., previous_dilation=..., ...)
Block(block, planes, strides, dilation, downsample, previous_dilation, last_gamma, data_format) ==
    IF block = "BasicBlockV1b"
    THEN BasicBlockV1b(planes, strides, dilation, downsample, previous_dilation,
                       last_gamma, data_format)
    ELSE BottleneckV1b(planes, strides, dilation, downsample, previous_dilation,
                       last_gamma, data_format)

(* --------------------------- stage builder ----------------------------- *)

\* mutant: the channel-count test dropped from the condition
NeedsDownsample_StrideOnly(inplanes, block, planes, strides) == strides # 1

\* the condition under which _make_layer builds a downsample list
NeedsDownsample(inplanes, block, planes, strides) ==
    strides # 1 \/ inplanes # planes * expansion(block)

\* mutant: the average pool left out where it would have kernel 1 and stride 1
Downsample_NoUnitPool(stage_index, block, planes, strides, dilation, avg_down, data_format) ==
    IF avg_down /\ dilation = 1
    THEN List("down", stage_index,
              << AveragePooling2D(strides, strides, "same", data_format),
                 Conv2D(planes * expansion(block), 1, 1, "valid", 1, FALSE, data_format),
                 norm_layer("ones") >>)
    ELSE List("down", stage_index,
              << Conv2D(planes * expansion(block), 1, IF avg_down THEN 1 ELSE strides, "valid", 1, FALSE,
                        data_format),
                 norm_layer("ones") >>)

\* the list ['down%d', ...] built when the condition holds
Downsample(stage_index, block, planes, strides, dilation, avg_down, data_format) ==
    IF avg_down
    THEN List("down", stage_index,
              << IF dilation = 1
                 THEN AveragePooling2D(strides, strides, "same", data_format)
                 ELSE AveragePooling2D(1, 1, "same", data_format),
                 Conv2D(planes * expansion(block), 1, 1, "valid", 1, FALSE, data_format),
                 norm_layer("ones") >>)
    ELSE List("down", stage_index,
              << Conv2D(planes * expansion(block), 1, strides, "valid", 1, FALSE,
                        data_format),
                 norm_layer("ones") >>)

\* mutant: any positive dilation accepted
DilationSupported_AnyPositive(dilation) == dilation >= 1

\* the dilation branch of _make_layer: which dilations are accepted
DilationSupported(dilation) == dilation \in {1, 2, 4}

\* mutant: dilations 1 and 2 passed through to the first block
FirstBlock_PassThrough(block, planes, strides, dilation, downsample, last_gamma, data_format) ==
    IF dilation \in {1, 2}
    THEN Block(block, planes, strides, dilation, downsample, dilation, last_gamma, data_format)
    ELSE Block(block, planes, strides, 2, downsample, dilation, last_gamma, data_format)

\* the first block of the stage, for a supported dilation
FirstBlock(block, planes, strides, dilation, downsample, last_gamma, data_format) ==
    IF dilation \in {1, 2}
    THEN Block(block, planes, strides, 1, downsample, dilation, last_gamma, data_format)
    ELSE Block(block, planes, strides, 2, downsample, dilation, last_gamma, data_format)

\* one block appended by the loop "for i in range(1, blocks)"
LaterBlock(block, planes, dilation, last_gamma, data_format) ==
    Block(block, planes, 1, dilation, None, dilation, last_gamma, data_format)

\* mutant: the loop written as range(blocks)
LoopRange_FromZero(blocks) == 0 .. (blocks - 1)

\* range(1, blocks)
LoopRange(blocks) == 1 .. (blocks - 1)

\* mutant: nothing built, and self.inplanes left alone, when blocks < 1
_make_layer_EmptyBelowOne(inplanes, stage_index, block, planes, blocks, strides, dilation, avg_down, last_gamma, data_format) ==
    LET downsample ==
            IF NeedsDownsample(inplanes, block, planes, strides)
            THEN Downsample(stage_index, block, planes, strides, dilation, avg_down,
                            data_format)
            ELSE None
        n == Cardinality(LoopRange(blocks))
    IN  IF ~DilationSupported(dilation)
        THEN [raised |-> TRUE, layers |-> None, inplanes |-> inplanes]
        ELSE IF blocks < 1
        THEN [raised |-> FALSE, layers |-> List("layers", stage_index, << >>), inplanes |-> inplanes]
        ELSE [raised   |-> FALSE,
              layers   |-> List("layers", stage_index,
                                << FirstBlock(block, planes, strides, dilation,
                                              downsample, last_gamma, data_format) >>
                                \o [i \in 1 .. n |->
                                       LaterBlock(block, planes, dilation, last_gamma,
                                                  data_format)]),
              inplanes |-> planes * expansion(block)]

\* self._make_layer(...) on an object whose self.inplanes is inplanes: whether it
\* raised, the list it returned, and self.inplanes afterwards
_make_layer(inplanes, stage_index, block, planes, blocks, strides, dilation, avg_down, last_gamma, data_format) ==
    LET downsample ==
            IF NeedsDownsample(inplanes, block, planes, strides)
            THEN Downsample(stage_index, block, planes, strides, dilation, avg_down,
                            data_format)
            ELSE None
        n == Cardinality(LoopRange(blocks))
    IN  IF ~DilationSupported(dilation)
        THEN [raised |-> TRUE, layers |-> None, inplanes |-> inplanes]
        ELSE [raised   |-> FALSE,
              layers   |-> List("layers", stage_index,
                                << FirstBlock(block, planes, strides, dilation,
                                              downsample, last_gamma, data_format) >>
                                \o [i \in 1 .. n |->
                                       LaterBlock(block, planes, dilation, last_gamma,
                                                  data_format)]),
              inplanes |-> planes * expansion(block)]

(* ------------------------- network assembler --------------------------- *)

\* the defaults of ResNetV1b.__init__'s keyword parameters
Defaults == [classes |-> 1000, data_format |-> "channels_last", dilated |-> FALSE, last_gamma |-> FALSE, deep_stem |-> FALSE, stem_width |-> 32, avg_down |-> FALSE, final_drop |-> 0, name_prefix |-> ""]

\* an object of the class before any attribute is assigned
NoModel == [inplanes |-> 0, data_format |-> "", name |-> "", conv1 |-> None, bn1 |-> None, relu |-> None, maxpool |-> None, layer1 |-> None, layer2 |-> None, layer3 |-> None, layer4 |-> None, avgpool |-> None, flat |-> None, drop |-> None, fc |-> None]

\* self.conv1: one 7x7 convolution, or the list ['conv1', ...] of the deep stem
Stem(a) ==
    IF ~a.deep_stem
    THEN Conv2D(64, 7, 2, "same", 1, FALSE, a.data_format)
    ELSE List("conv1", 0,
              << Conv2D(a.stem_width, 3, 2, "same", 1, FALSE, a.data_format),
                 norm_layer("ones"),
                 Activation("relu"),
                 Conv2D(a.stem_width, 3, 1, "same", 1, FALSE, a.data_format),
                 norm_layer("ones"),
                 Activation("relu"),
                 Conv2D(a.stem_width * 2, 3, 1, "same", 1, FALSE, a.data_format) >>)

\* mutant: self.inplanes started at 64 whatever the stem
InitStem_Inplanes64(a) ==
    [NoModel EXCEPT !.inplanes = 64,
                    !.data_format = a.data_format,
                    !.name = a.name_prefix,
                    !.conv1 = Stem(a),
                    !.bn1 = norm_layer("ones"),
                    !.relu = Activation("relu"),
                    !.maxpool = MaxPool2D(3, 2, "same", a.data_format)]

\* __init__ up to and including self.maxpool
InitStem(a) ==
    [NoModel EXCEPT !.inplanes = IF a.deep_stem THEN a.stem_width * 2 ELSE 64,
                    !.data_format = a.data_format,
                    !.name = a.name_prefix,
                    !.conv1 = Stem(a),
                    !.bn1 = norm_layer("ones"),
                    !.relu = Activation("relu"),
                    !.maxpool = MaxPool2D(3, 2, "same", a.data_format)]

\* mutant: stage 4 keeps stride 2 in dilated mode
StageArgs_Stage4Strided(a, i) ==
    CASE i = 1 -> [planes |-> 64, blocks |-> a.layers[1], strides |-> 1, dilation |-> 1]
      [] i = 2 -> [planes |-> 128, blocks |-> a.layers[2], strides |-> 2, dilation |-> 1]
      [] i = 3 -> IF a.dilated
                  THEN [planes |-> 256, blocks |-> a.layers[3], strides |-> 1, dilation |-> 2]
                  ELSE [planes |-> 256, blocks |-> a.layers[3], strides |-> 2, dilation |-> 1]
      [] i = 4 -> IF a.dilated
                  THEN [planes |-> 512, blocks |-> a.layers[4], strides |-> 2, dilation |-> 4]
                  ELSE [planes |-> 512, blocks |-> a.layers[4], strides |-> 2, dilation |-> 1]

\* mutant: stage 4 asks for dilation 8 in dilated mode
StageArgs_Dilation8(a, i) ==
    CASE i = 1 -> [planes |-> 64, blocks |-> a.layers[1], strides |-> 1, dilation |-> 1]
      [] i = 2 -> [planes |-> 128, blocks |-> a.layers[2], strides |-> 2, dilation |-> 1]
      [] i = 3 -> IF a.dilated
                  THEN [planes |-> 256, blocks |-> a.layers[3], strides |-> 1, dilation |-> 2]
                  ELSE [planes |-> 256, blocks |-> a.layers[3], strides |-> 2, dilation |-> 1]
      [] i = 4 -> IF a.dilated
                  THEN [planes |-> 512, blocks |-> a.layers[4], strides |-> 1, dilation |-> 8]
                  ELSE [planes |-> 512, blocks |-> a.layers[4], strides |-> 2, dilation |-> 1]

\* planes, block count, strides and dilation __init__ passes for stage i
StageArgs(a, i) ==
    CASE i = 1 -> [planes |-> 64, blocks |-> a.layers[1], strides |-> 1, dilation |-> 1]
      [] i = 2 -> [planes |-> 128, blocks |-> a.layers[2], strides |-> 2, dilation |-> 1]
      [] i = 3 -> IF a.dilated
                  THEN [planes |-> 256, blocks |-> a.layers[3], strides |-> 1, dilation |-> 2]
                  ELSE [planes |-> 256, blocks |-> a.layers[3], strides |-> 2, dilation |-> 1]
      [] i = 4 -> IF a.dilated
                  THEN [planes |-> 512, blocks |-> a.layers[4], strides |-> 1, dilation |-> 4]
                  ELSE [planes |-> 512, blocks |-> a.layers[4], strides |-> 2, dilation |-> 1]

\* the arguments of the call self._make_layer(i, block, ...) made by __init__
StageCall(m, a, i) ==
    LET s == StageArgs(a, i)
    IN  [inplanes |-> m.inplanes, stage_index |-> i, block |-> a.block, planes |-> s.planes, blocks |-> s.blocks, strides |-> s.strides, dilation |-> s.dilation, avg_down |-> a.avg_down, last_gamma |-> a.last_gamma, data_format |-> a.data_format]

\* a call of the stage builder with the arguments c
Invoke(c) ==
    _make_layer(c.inplanes, c.stage_index, c.block, c.planes, c.blocks, c.strides, c.dilation, c.avg_down, c.last_gamma, c.data_format)

LayerField(i) == CASE i = 1 -> "layer1" [] i = 2 -> "layer2" [] i = 3 -> "layer3" [] i = 4 -> "layer4"

\* self.layer<i> = self._make_layer(...), with the update of self.inplanes it makes
SetLayer(m, i, r) == [m EXCEPT ![LayerField(i)] = r.layers, !.inplanes = r.inplanes]

\* __init__ from self.avgpool to self.fc
InitHead(m, a) ==
    [m EXCEPT !.avgpool = GlobalAveragePooling2D(a.data_format),
              !.flat = Flatten,
              !.drop = IF a.final_drop > 0 THEN Dropout(a.final_drop) ELSE None,
              !.fc = Dense(a.classes)]

RECURSIVE InitStages(_, _)
\* the object after __init__ has built stages 1..i (no stage raising)
InitStages(a, i) ==
    IF i = 0 THEN InitStem(a)
    ELSE LET m == InitStages(a, i - 1)
         IN  SetLayer(m, i, Invoke(StageCall(m, a, i)))

\* whether some stage-builder call of __init__ raises
InitRaises(a) == \E i \in 1 .. 4 : Invoke(StageCall(InitStages(a, i - 1), a, i)).raised

\* the object ResNetV1b(**a) returns
ResNetV1b(a) == InitHead(InitStages(a, 4), a)

(* ------------------------- forward computation ------------------------- *)

\* a tensor is modelled by the sequence of operations applied to the input
Input == << >>

\* forward(x, layer) of riptide.utils.sequential: the layer, or the named list of
\* layers, is applied to x once
forward(t, layer) == Append(t, layer)

\* tf.transpose(x, perm)
transpose(t, perm) == Append(t, [kind |-> "transpose", perm |-> perm])

\* mutant: the dropout applied to the logits, after the dense layer
ResNetV1b_call_DropLast(m, t) ==
    LET t0 == IF m.data_format = "channels_first" THEN transpose(t, <<0, 3, 1, 2>>) ELSE t
        t1 == forward(forward(forward(forward(t0, m.conv1), m.bn1), m.relu), m.maxpool)
        t2 == forward(forward(forward(forward(t1, m.layer1), m.layer2), m.layer3), m.layer4)
        t3 == forward(forward(t2, m.avgpool), m.flat)
        t4 == forward(t3, m.fc)
    IN  IF m.drop # None THEN forward(t4, m.drop) ELSE t4

\* ResNetV1b.call(x) on the object m
ResNetV1b_call(m, t) ==
    LET t0 == IF m.data_format = "channels_first" THEN transpose(t, <<0, 3, 1, 2>>) ELSE t
        t1 == forward(forward(forward(forward(t0, m.conv1), m.bn1), m.relu), m.maxpool)
        t2 == forward(forward(forward(forward(t1, m.layer1), m.layer2), m.layer3), m.layer4)
        t3 == forward(forward(t2, m.avgpool), m.flat)
        t4 == IF m.drop # None THEN forward(t3, m.drop) ELSE t3
    IN  forward(t4, m.fc)

(* ------------------------- variant constructors ------------------------ *)

resnet18_v1b == [block |-> "BasicBlockV1b", layers |-> <<2, 2, 2, 2>>, name_prefix |-> "resnetv1b"]
resnet34_v1b == [block |-> "BasicBlockV1b", layers |-> <<3, 4, 6, 3>>, name_prefix |-> "resnetv1b"]
resnet50_v1b == [block |-> "BottleneckV1b", layers |-> <<3, 4, 6, 3>>, name_prefix |-> "resnetv1b"]
resnet101_v1b == [block |-> "BottleneckV1b", layers |-> <<3, 4, 23, 3>>, name_prefix |-> "resnetv1b"]
resnet152_v1b == [block |-> "BottleneckV1b", layers |-> <<3, 8, 36, 3>>, name_prefix |-> "resnetv1b"]
resnet50_v1c == [block |-> "BottleneckV1b", layers |-> <<3, 4, 6, 3>>, deep_stem |-> TRUE, name_prefix |-> "resnetv1c_"]
resnet101_v1c == [block |-> "BottleneckV1b", layers |-> <<3, 4, 23, 3>>, deep_stem |-> TRUE, name_prefix |-> "resnetv1c_"]
resnet152_v1c == [block |-> "BottleneckV1b", layers |-> <<3, 8, 36, 3>>, deep_stem |-> TRUE, name_prefix |-> "resnetv1c_"]
resnet50_v1d == [block |-> "BottleneckV1b", layers |-> <<3, 4, 6, 3>>, deep_stem |-> TRUE, avg_down |-> TRUE, name_prefix |-> "resnetv1d_"]
resnet101_v1d == [block |-> "BottleneckV1b", layers |-> <<3, 4, 23, 3>>, deep_stem |-> TRUE, avg_down |-> TRUE, name_prefix |-> "resnetv1d_"]
resnet152_v1d == [block |-> "BottleneckV1b", layers |-> <<3, 8, 36, 3>>, deep_stem |-> TRUE, avg_down |-> TRUE, name_prefix |-> "resnetv1d_"]
resnet50_v1e == [block |-> "BottleneckV1b", layers |-> <<3, 4, 6, 3>>, deep_stem |-> TRUE, avg_down |-> TRUE, stem_width |-> 64, name_prefix |-> "resnetv1e_"]
resnet101_v1e == [block |-> "BottleneckV1b", layers |-> <<3, 4, 23, 3>>, deep_stem |-> TRUE, avg_down |-> TRUE, stem_width |-> 64, name_prefix |-> "resnetv1e_"]
resnet152_v1e == [block |-> "BottleneckV1b", layers |-> <<3, 8, 36, 3>>, deep_stem |-> TRUE, avg_down |-> TRUE, stem_width |-> 64, name_prefix |-> "resnetv1e_"]
resnet50_v1s == [block |-> "BottleneckV1b", layers |-> <<3, 4, 6, 3>>, deep_stem |-> TRUE, stem_width |-> 64, name_prefix |-> "resnetv1s_"]
resnet101_v1s == [block |-> "BottleneckV1b", layers |-> <<3, 4, 23, 3>>, deep_stem |-> TRUE, stem_width |-> 64, name_prefix |-> "resnetv1s_"]
\* mutant: resnet152_v1s copied from resnet152_v1e without dropping avg_down
resnet152_v1s_AvgDown == [block |-> "BottleneckV1b", layers |-> <<3, 8, 36, 3>>, deep_stem |-> TRUE, avg_down |-> TRUE, stem_width |-> 64, name_prefix |-> "resnetv1s_"]
resnet152_v1s == [block |-> "BottleneckV1b", layers |-> <<3, 8, 36, 3>>, deep_stem |-> TRUE, stem_width |-> 64, name_prefix |-> "resnetv1s_"]

\* the module's constructor functions, by name: the keyword arguments each one fixes
Variants ==
    ("resnet18_v1b" :> resnet18_v1b) @@ ("resnet34_v1b" :> resnet34_v1b) @@
    ("resnet50_v1b" :> resnet50_v1b) @@ ("resnet101_v1b" :> resnet101_v1b) @@
    ("resnet152_v1b" :> resnet152_v1b) @@
    ("resnet50_v1c" :> resnet50_v1c) @@ ("resnet101_v1c" :> resnet101_v1c) @@
    ("resnet152_v1c" :> resnet152_v1c) @@
    ("resnet50_v1d" :> resnet50_v1d) @@ ("resnet101_v1d" :> resnet101_v1d) @@
    ("resnet152_v1d" :> resnet152_v1d) @@
    ("resnet50_v1e" :> resnet50_v1e) @@ ("resnet101_v1e" :> resnet101_v1e) @@
    ("resnet152_v1e" :> resnet152_v1e) @@
    ("resnet50_v1s" :> resnet50_v1s) @@ ("resnet101_v1s" :> resnet101_v1s) @@
    ("resnet152_v1s" :> resnet152_v1s)

\* ResNetV1b(block, layers, <fixed keywords>, **kwargs): the parameters __init__ sees
VariantArgs(name, kwargs) == Variants[name] @@ kwargs @@ Defaults

(* ------------------------------- inputs -------------------------------- *)

Formats == {"channels_last", "channels_first"}
Classes == {10, 1000}
Drops == {0, 50}
StemWidths == {32, 64}

\* keyword arguments a caller passes through a variant constructor
Kwargs == [classes : Classes, data_format : Formats, dilated : BOOLEAN, last_gamma : BOOLEAN, final_drop : Drops]

\* arguments of a direct call ResNetV1b(block, layers, ...)
DirectArgs == [block : BlockTypes, layers : [1 .. 4 -> 1 .. MaxCount], classes : {1000}, data_format : {"channels_last"}, dilated : BOOLEAN, last_gamma : BOOLEAN, deep_stem : BOOLEAN, stem_width : StemWidths, avg_down : BOOLEAN, final_drop : {0}, name_prefix : {""}]

PlanesValues == {64, 128, 256, 512}

\* arguments of a direct call of the stage builder
StageInputs == [stage_index : 1 .. 4, block : BlockTypes, planes : PlanesValues, blocks : (-1) .. MaxBlocks, strides : 1 .. MaxStride, dilation : 0 .. MaxDilation, avg_down : BOOLEAN, last_gamma : BOOLEAN, data_format : {"channels_last"}]

(* ---------------------------- state machine ---------------------------- *)

Init ==
    /\ pc = "idle"
    /\ variant = ""
    /\ args = None
    /\ model = None
    /\ call = None
    /\ x = None

\* model = resnetNN_v1x(**kwargs): enters ResNetV1b.__init__
CallVariant ==
    /\ pc = "idle"
    /\ \E name \in DOMAIN Variants, kwargs \in Kwargs :
          /\ variant' = name
          /\ args' = VariantArgs(name, kwargs)
    /\ pc' = "stem"
    /\ UNCHANGED <<model, call, x>>

\* model = ResNetV1b(block, layers, ...): enters ResNetV1b.__init__
CallResNetV1b ==
    /\ pc = "idle"
    /\ \E a \in DirectArgs : args' = a
    /\ variant' = "ResNetV1b"
    /\ pc' = "stem"
    /\ UNCHANGED <<model, call, x>>

BuildStem ==
    /\ pc = "stem"
    /\ model' = InitStem(args)
    /\ pc' = "layer1"
    /\ UNCHANGED <<variant, args, call, x>>

BuildLayer(i) ==
    LET c == StageCall(model, args, i)
        r == Invoke(c)
    IN  /\ call' = [input |-> c, result |-> r]
        /\ IF r.raised
           THEN pc' = "raised" /\ UNCHANGED model
           ELSE /\ model' = SetLayer(model, i, r)
                /\ pc' = IF i = 4 THEN "head" ELSE LayerField(i + 1)
        /\ UNCHANGED <<variant, args, x>>

BuildLayer1 == pc = "layer1" /\ BuildLayer(1)
BuildLayer2 == pc = "layer2" /\ BuildLayer(2)
BuildLayer3 == pc = "layer3" /\ BuildLayer(3)
BuildLayer4 == pc = "layer4" /\ BuildLayer(4)

BuildHead ==
    /\ pc = "head"
    /\ model' = InitHead(model, args)
    /\ pc' = "built"
    /\ UNCHANGED <<variant, args, call, x>>

\* an object whose self.inplanes is some channel count, on which the stage
\* builder is then called directly
Harness ==
    /\ pc = "idle"
    /\ \E v \in {2 * w : w \in StemWidths} \cup {p * expansion(b) : p \in PlanesValues, b \in BlockTypes} :
          model' = [NoModel EXCEPT !.inplanes = v]
    /\ variant' = "_make_layer"
    /\ pc' = "stage"
    /\ UNCHANGED <<args, call, x>>

\* layers = self._make_layer(stage_index, block, planes, blocks, ...)
CallMakeLayer ==
    /\ pc = "stage"
    /\ \E s \in StageInputs :
          LET c == [inplanes |-> model.inplanes] @@ s
              r == Invoke(c)
          IN  /\ call' = [input |-> c, result |-> r]
              /\ model' = [model EXCEPT !.inplanes = r.inplanes]
              /\ pc' = IF r.raised THEN "raised" ELSE "returned"
    /\ UNCHANGED <<variant, args, x>>

\* y = model(x): the forward computation of a built network
CallModel ==
    /\ pc = "built"
    /\ x' = ResNetV1b_call(model, Input)
    /\ pc' = "called"
    /\ UNCHANGED <<variant, args, model, call>>

Next ==
    \/ CallVariant
    \/ CallResNetV1b
    \/ BuildStem
    \/ BuildLayer1
    \/ BuildLayer2
    \/ BuildLayer3
    \/ BuildLayer4
    \/ BuildHead
    \/ Harness
    \/ CallMakeLayer
    \/ CallModel

Spec == Init /\ [][Next]_vars

(* ------------------------- reading a built graph ----------------------- *)

Returned == call # None /\ ~call.result.raised

\* the blocks of a list returned by the stage builder
BlocksOf(stage) == stage.items

HasDownsample(b) == b.downsample # None

\* the convolution of a block that carries its stride and dilation
MainConv(b) == IF b.block = "BasicBlockV1b" THEN b.conv1 ELSE b.conv2

\* the last convolution of a block's main path
LastConv(b) == IF b.block = "BasicBlockV1b" THEN b.conv2 ELSE b.conv3

(* -------------------------------- C1 ----------------------------------- *)

\* C1: for every call of the stage builder that returns a stage, the first block
\* carries a downsample sub-graph if and only if stride # 1 or the accumulated
\* input-channel count differs from planes * expansion; otherwise its downsample
\* is absent.
C1_DownsampleIff ==
    Returned =>
        LET c == call.input
            first == BlocksOf(call.result.layers)[1]
        IN  HasDownsample(first) <=> (c.strides # 1 \/ c.inplanes # c.planes * expansion(c.block))

\* a direct call with stride 1 and matching channels returned an identity residual
C1_Witness ==
    /\ pc = "returned"
    /\ call.input.strides = 1
    /\ call.input.block = "BottleneckV1b"
    /\ call.input.inplanes = call.input.planes * 4
    /\ ~HasDownsample(BlocksOf(call.result.layers)[1])

(* -------------------------------- C2 ----------------------------------- *)

\* C2 as stated: a requested dilation of 1 or 2 is the first block's own dilation,
\* with previous-dilation equal to the request; a request of 4 gives block
\* dilation 2 with previous-dilation 4.
C2_Original ==
    Returned =>
        LET d == call.input.dilation
            first == BlocksOf(call.result.layers)[1]
        IN  /\ d \in {1, 2} => /\ first.init.dilation = d
                               /\ MainConv(first).dilation_rate = d
                               /\ first.init.previous_dilation = d
            /\ d = 4 => /\ first.init.dilation = 2
                        /\ MainConv(first).dilation_rate = 2
                        /\ first.init.previous_dilation = 4

\* C2 amended: a requested dilation of 1 or 2 gives the first block dilation 1,
\* and a request of 4 gives it dilation 2; in each case the previous-dilation
\* passed to the block is the requested dilation.
C2_FirstBlockDilation ==
    Returned =>
        LET d == call.input.dilation
            first == BlocksOf(call.result.layers)[1]
        IN  /\ first.init.previous_dilation = d
            /\ d \in {1, 2} => first.init.dilation = 1 /\ MainConv(first).dilation_rate = 1
            /\ d = 4 => first.init.dilation = 2 /\ MainConv(first).dilation_rate = 2
            /\ first.block = "BasicBlockV1b" => first.conv2.dilation_rate = d

\* a stage requested with dilation 2 was returned, its first block dilated by 1
C2_Witness ==
    /\ pc = "returned"
    /\ call.input.dilation = 2
    /\ MainConv(BlocksOf(call.result.layers)[1]).dilation_rate = 1

(* -------------------------------- C3 ----------------------------------- *)

\* C3: a call of the stage builder with a dilation outside {1, 2, 4} ends in the
\* configuration error while the model is being built: it raises, returns no
\* stage and leaves the accumulated channel count as it was, whatever the block
\* type, stride, block count and avg_down.
C3_UnsupportedDilationRaises ==
    (call # None /\ call.input.dilation \notin {1, 2, 4}) =>
        /\ call.result.raised
        /\ call.result.layers = None
        /\ pc = "raised"
        /\ model.inplanes = call.input.inplanes

\* a direct call with dilation 3 and average-down raised
C3_Witness ==
    /\ pc = "raised"
    /\ call.input.dilation = 3
    /\ call.input.avg_down
    /\ call.input.strides = 2
    /\ call.result.raised

(* -------------------------------- C4 ----------------------------------- *)

\* C4: in every stage built, for both block types, the last convolution of every
\* block has planes * expansion filters (expansion 1 for the basic block, 4 for
\* the bottleneck block), and once the stage is built the accumulated
\* input-channel count is that same value.
C4_StageChannels ==
    Returned =>
        LET c == call.input
            out == c.planes * (IF c.block = "BasicBlockV1b" THEN 1 ELSE 4)
            bs == BlocksOf(call.result.layers)
        IN  /\ \A j \in 1 .. Len(bs) : LastConv(bs[j]).filters = out
            /\ call.result.inplanes = out
            /\ model.inplanes = out

\* the assembler has just built stage 2 of a bottleneck network with two blocks
C4_Witness ==
    /\ pc = "layer3"
    /\ args.block = "BottleneckV1b"
    /\ call.input.stage_index = 2
    /\ Len(BlocksOf(model.layer2)) >= 2
    /\ model.inplanes = 512

(* -------------------------------- C5 ----------------------------------- *)

RECURSIVE Product(_)
Product(seq) == IF seq = <<>> THEN 1 ELSE Head(seq) * Product(Tail(seq))

\* the spatial stride of one layer, of a list of layers, and of a block's main path
LayerStride(l) == IF l.kind \in {"Conv2D", "MaxPool2D", "AveragePooling2D"} THEN l.strides ELSE 1

ListStride(l) == IF l.kind = "list" THEN Product([k \in 1 .. Len(l.items) |-> LayerStride(l.items[k])]) ELSE LayerStride(l)

BlockStride(b) == b.conv1.strides * b.conv2.strides * (IF b.block = "BottleneckV1b" THEN b.conv3.strides ELSE 1)

StageStride(stage) == Product([j \in 1 .. Len(stage.items) |-> BlockStride(stage.items[j])])

\* total downsampling: stem, max-pool and the four stages
TotalStride(m) == ListStride(m.conv1) * LayerStride(m.maxpool) * StageStride(m.layer1) * StageStride(m.layer2) * StageStride(m.layer3) * StageStride(m.layer4)

\* C5: of two networks assembled with the same parameters except dilated, the
\* dilated one builds stages 3 and 4 with stride 1 and the other with stride 2;
\* total downsampling is 8 in dilated mode and 32 otherwise, a ratio of 4.
C5_DilatedStride ==
    pc = "built" =>
        LET other == ResNetV1b([k \in DOMAIN args |-> IF k = "dilated" THEN ~args.dilated ELSE args[k]])
            dil == IF args.dilated THEN model ELSE other
            std == IF args.dilated THEN other ELSE model
        IN  /\ BlocksOf(dil.layer3)[1].strides = 1 /\ StageStride(dil.layer3) = 1
            /\ BlocksOf(dil.layer4)[1].strides = 1 /\ StageStride(dil.layer4) = 1
            /\ BlocksOf(std.layer3)[1].strides = 2 /\ StageStride(std.layer3) = 2
            /\ BlocksOf(std.layer4)[1].strides = 2 /\ StageStride(std.layer4) = 2
            /\ TotalStride(dil) = 8
            /\ TotalStride(std) = 32
            /\ TotalStride(std) = 4 * TotalStride(dil)

\* a dilated deep-stem network has been assembled, at 8x total downsampling
C5_Witness ==
    /\ pc = "built"
    /\ args.dilated
    /\ args.deep_stem
    /\ TotalStride(model) = 8

(* -------------------------------- C6 ----------------------------------- *)

\* the keyword arguments a variant constructor was called with, read from args
KwargsOf(a) == [k \in {"classes", "data_format", "dilated", "last_gamma", "final_drop"} |-> a[k]]

Kinds(l) == [k \in 1 .. Len(l.items) |-> l.items[k].kind]

\* a block without the contents of its downsample: only whether it has one and
\* how many channels that one produces
StripBlock(b) ==
    [k \in DOMAIN b |->
        IF k # "downsample" THEN b[k]
        ELSE IF ~HasDownsample(b) THEN <<"absent">>
        ELSE <<"present", {l.filters : l \in {e \in {b.downsample.items[j] : j \in 1 .. Len(b.downsample.items)} : e.kind = "Conv2D"}}>>]

StripStage(stage) == [stage EXCEPT !.items = [j \in 1 .. Len(stage.items) |-> StripBlock(stage.items[j])]]

\* a network without its name and without the contents of its downsamples
StripModel(m) ==
    [m EXCEPT !.name = "", !.layer1 = StripStage(m.layer1), !.layer2 = StripStage(m.layer2), !.layer3 = StripStage(m.layer3), !.layer4 = StripStage(m.layer4)]

\* C6: resnet101_v1c and resnet101_v1d built with the same keyword arguments both
\* have a deep stem of three convolutions and block counts [3, 4, 23, 3]; every
\* downsample sub-graph of v1d is average-pool, conv, norm and the corresponding
\* one of v1c is conv, norm; everything else in the two graphs is the same.
C6_V1cVersusV1d ==
    (pc = "built" /\ variant \in {"resnet101_v1c", "resnet101_v1d"}) =>
        LET kw == KwargsOf(args)
            c == IF variant = "resnet101_v1c" THEN model ELSE ResNetV1b(VariantArgs("resnet101_v1c", kw))
            d == IF variant = "resnet101_v1d" THEN model ELSE ResNetV1b(VariantArgs("resnet101_v1d", kw))
            stages(m) == <<m.layer1, m.layer2, m.layer3, m.layer4>>
        IN  /\ \A m \in {c, d} :
                 /\ m.conv1.kind = "list"
                 /\ Cardinality({k \in 1 .. Len(m.conv1.items) : m.conv1.items[k].kind = "Conv2D"}) = 3
                 /\ [i \in 1 .. 4 |-> Len(stages(m)[i].items)] = <<3, 4, 23, 3>>
            /\ \A i \in 1 .. 4 : \A j \in 1 .. Len(stages(c)[i].items) :
                 LET bc == stages(c)[i].items[j]
                     bd == stages(d)[i].items[j]
                 IN  /\ HasDownsample(bc) <=> HasDownsample(bd)
                     /\ HasDownsample(bd) =>
                          /\ Kinds(bd.downsample) = <<"AveragePooling2D", "Conv2D", "BatchNormalization">>
                          /\ Kinds(bc.downsample) = <<"Conv2D", "BatchNormalization">>
                          /\ bd.downsample # bc.downsample
            /\ \E i \in 1 .. 4 : HasDownsample(stages(d)[i].items[1])
            /\ StripModel(c) = StripModel(d)

\* resnet101_v1d has been built in dilated mode, its stage-4 skip path starting
\* with an average pool
C6_Witness ==
    /\ pc = "built"
    /\ variant = "resnet101_v1d"
    /\ args.dilated
    /\ Len(model.layer3.items) = 23
    /\ model.layer4.items[1].downsample.items[1].kind = "AveragePooling2D"

(* -------------------------------- C7 ----------------------------------- *)

\* the depth and the variant group each constructor's name states
DepthOf ==
    ("resnet18_v1b" :> 18) @@ ("resnet34_v1b" :> 34) @@ ("resnet50_v1b" :> 50) @@ ("resnet101_v1b" :> 101) @@ ("resnet152_v1b" :> 152) @@
    ("resnet50_v1c" :> 50) @@ ("resnet101_v1c" :> 101) @@ ("resnet152_v1c" :> 152) @@
    ("resnet50_v1d" :> 50) @@ ("resnet101_v1d" :> 101) @@ ("resnet152_v1d" :> 152) @@
    ("resnet50_v1e" :> 50) @@ ("resnet101_v1e" :> 101) @@ ("resnet152_v1e" :> 152) @@
    ("resnet50_v1s" :> 50) @@ ("resnet101_v1s" :> 101) @@ ("resnet152_v1s" :> 152)

GroupOf ==
    ("resnet18_v1b" :> "b") @@ ("resnet34_v1b" :> "b") @@ ("resnet50_v1b" :> "b") @@ ("resnet101_v1b" :> "b") @@ ("resnet152_v1b" :> "b") @@
    ("resnet50_v1c" :> "c") @@ ("resnet101_v1c" :> "c") @@ ("resnet152_v1c" :> "c") @@
    ("resnet50_v1d" :> "d") @@ ("resnet101_v1d" :> "d") @@ ("resnet152_v1d" :> "d") @@
    ("resnet50_v1e" :> "e") @@ ("resnet101_v1e" :> "e") @@ ("resnet152_v1e" :> "e") @@
    ("resnet50_v1s" :> "s") @@ ("resnet101_v1s" :> "s") @@ ("resnet152_v1s" :> "s")

\* the published architecture of each depth: block type and per-stage counts
BlockOfDepth(d) == IF d \in {18, 34} THEN "BasicBlockV1b" ELSE "BottleneckV1b"

CountsOfDepth(d) ==
    CASE d = 18 -> <<2, 2, 2, 2>> [] d = 34 -> <<3, 4, 6, 3>> [] d = 50 -> <<3, 4, 6, 3>>
      [] d = 101 -> <<3, 4, 23, 3>> [] d = 152 -> <<3, 8, 36, 3>>

\* the keyword arguments group g fixes, besides block, layers and name_prefix
FixedByGroup(g) ==
    CASE g = "b" -> << >>
      [] g = "c" -> [deep_stem |-> TRUE]
      [] g = "d" -> [deep_stem |-> TRUE, avg_down |-> TRUE]
      [] g = "e" -> [deep_stem |-> TRUE, avg_down |-> TRUE, stem_width |-> 64]
      [] g = "s" -> [deep_stem |-> TRUE, stem_width |-> 64]

\* every constructor fixes exactly what its group and depth prescribe, and the
\* network assembler is entered with exactly those values
PresetsAsNamed ==
    /\ \A n \in DOMAIN Variants :
         LET v == Variants[n]
             f == FixedByGroup(GroupOf[n])
         IN  /\ DOMAIN v = {"block", "layers", "name_prefix"} \cup DOMAIN f
             /\ v.block = BlockOfDepth(DepthOf[n])
             /\ v.layers = CountsOfDepth(DepthOf[n])
             /\ \A k \in DOMAIN f : v[k] = f[k]
             /\ \A m \in DOMAIN Variants : (v.name_prefix = Variants[m].name_prefix) <=> (GroupOf[n] = GroupOf[m])
    /\ (pc # "idle" /\ variant \in DOMAIN Variants) =>
         LET g == GroupOf[variant]
         IN  /\ args.block = BlockOfDepth(DepthOf[variant])
             /\ args.layers = CountsOfDepth(DepthOf[variant])
             /\ args.deep_stem = (g # "b")
             /\ args.avg_down = (g \in {"d", "e"})
             /\ args.stem_width = (IF g \in {"e", "s"} THEN 64 ELSE 32)
             /\ args.name_prefix = Variants[variant].name_prefix

\* C7 as stated: twenty-one variant constructors, over the depths 18, 34, 50, 101
\* and 152 and the groups b, c, d, e and s, each fixing only block type, counts,
\* deep-stem, average-down, stem-width and name prefix.
C7_Original ==
    /\ Cardinality(DOMAIN Variants) = 21
    /\ PresetsAsNamed

\* C7 amended: seventeen variant constructors: depths 18, 34, 50, 101 and 152 in
\* group b and depths 50, 101 and 152 in each of the groups c, d, e and s, each
\* fixing only block type, counts, deep-stem, average-down, stem-width and name
\* prefix as its group prescribes.
C7_SeventeenVariants ==
    /\ Cardinality(DOMAIN Variants) = 17
    /\ {<<DepthOf[n], GroupOf[n]>> : n \in DOMAIN Variants} = ({18, 34, 50, 101, 152} \X {"b"}) \cup ({50, 101, 152} \X {"c", "d", "e", "s"})
    /\ DOMAIN DepthOf = DOMAIN Variants
    /\ PresetsAsNamed

\* resnet152_v1s has been called and built: deep stem of width 64, no average-down
C7_Witness ==
    /\ pc = "built"
    /\ variant = "resnet152_v1s"
    /\ model.conv1.kind = "list"
    /\ model.conv1.items[1].filters = 64
    /\ Kinds(model.layer2.items[1].downsample) = <<"Conv2D", "BatchNormalization">>

(* -------------------------------- C8 ----------------------------------- *)

\* C8: the unsupported-dilation error is never reached through the network
\* assembler or a variant constructor: whatever the block type, counts, dilated,
\* deep_stem, stem_width, avg_down and last_gamma, the stage-builder calls of the
\* assembly request dilation 1, 2 or 4 only and none of them raises.
C8_AssemblyNeverRaises ==
    (variant \in DOMAIN Variants \cup {"ResNetV1b"}) =>
        /\ pc # "raised"
        /\ ~InitRaises(args)
        /\ call # None => (call.input.dilation \in {1, 2, 4} /\ ~call.result.raised)

\* a direct, dilated, average-down assembly has completed after asking stage 4
\* for dilation 4
C8_Witness ==
    /\ pc = "built"
    /\ variant = "ResNetV1b"
    /\ args.dilated
    /\ args.avg_down
    /\ args.block = "BasicBlockV1b"
    /\ call.input.stage_index = 4
    /\ call.input.dilation = 4

(* -------------------------------- C9 ----------------------------------- *)

\* C9: a downsample sub-graph built with average-down is an average pool with the
\* stage's stride (kernel 1 if dilation # 1, else kernel = stride), then a 1x1
\* convolution with planes * expansion filters and stride 1, then a norm layer;
\* without average-down it is a 1x1 convolution with planes * expansion filters
\* and the stage's stride, then a norm layer; for every stride and dilation.
C9_DownsampleShape ==
    (Returned /\ HasDownsample(BlocksOf(call.result.layers)[1])) =>
        LET c == call.input
            items == BlocksOf(call.result.layers)[1].downsample.items
            out == c.planes * expansion(c.block)
        IN  IF c.avg_down
            THEN /\ Kinds(BlocksOf(call.result.layers)[1].downsample) = <<"AveragePooling2D", "Conv2D", "BatchNormalization">>
                 /\ items[1].strides = c.strides
                 /\ items[1].pool_size = (IF c.dilation # 1 THEN 1 ELSE c.strides)
                 /\ items[2].filters = out /\ items[2].kernel_size = 1 /\ items[2].strides = 1
            ELSE /\ Kinds(BlocksOf(call.result.layers)[1].downsample) = <<"Conv2D", "BatchNormalization">>
                 /\ items[1].filters = out /\ items[1].kernel_size = 1 /\ items[1].strides = c.strides

(* -------------------------------- C10 ---------------------------------- *)

\* what C10 says of each block after the first: the stage's planes, stride 1, no
\* downsample, the requested dilation as dilation and as previous-dilation
LaterBlocksUniform ==
    Returned =>
        LET c == call.input
            bs == BlocksOf(call.result.layers)
        IN  \A j \in 2 .. Len(bs) :
               /\ bs[j].block = c.block
               /\ bs[j].init.planes = c.planes /\ MainConv(bs[j]).filters = c.planes
               /\ bs[j].init.strides = 1 /\ bs[j].strides = 1 /\ BlockStride(bs[j]) = 1
               /\ ~HasDownsample(bs[j])
               /\ bs[j].init.dilation = c.dilation /\ MainConv(bs[j]).dilation_rate = c.dilation
               /\ bs[j].init.previous_dilation = c.dilation

\* C10 as stated: each later block is uniform as above, and exactly block-count
\* minus 1 such blocks follow the first.
C10_Original ==
    /\ LaterBlocksUniform
    /\ Returned => Len(BlocksOf(call.result.layers)) - 1 = call.input.blocks - 1

\* C10 amended: each later block is uniform as above, and exactly
\* max(0, block-count - 1) such blocks follow the first (block-count - 1 for
\* every count of at least 1, none for a count of 0 or less).
C10_LaterBlocks ==
    /\ LaterBlocksUniform
    /\ Returned =>
         Len(BlocksOf(call.result.layers)) - 1 = (IF call.input.blocks >= 1 THEN call.input.blocks - 1 ELSE 0)

\* a stage of three blocks requested with dilation 4 was returned: the first
\* block dilated by 2, the two later ones by 4
C10_Witness ==
    /\ pc = "returned"
    /\ call.input.dilation = 4
    /\ call.input.blocks = 3
    /\ Len(BlocksOf(call.result.layers)) = 3
    /\ MainConv(BlocksOf(call.result.layers)[1]).dilation_rate = 2
    /\ MainConv(BlocksOf(call.result.layers)[3]).dilation_rate = 4

(* -------------------------------- C11 ---------------------------------- *)

\* what kind of component an applied operation is
ComponentOf(l) ==
    IF l.kind = "list" THEN (IF l.name = "layers" THEN <<"stage", l.index>> ELSE <<l.name>>) ELSE <<l.kind>>

\* C11: the forward computation applies, each exactly once and in this order:
\* (a transpose, only if the layout is channels-first,) the stem, norm,
\* activation, max-pool, stages 1 to 4, global average pool, flatten, dropout
\* and dense; the dropout step is there if and only if the final-dropout rate
\* is > 0, and nothing is applied after the dense layer.
C11_ForwardOrder ==
    pc = "called" =>
        LET pre == IF args.data_format = "channels_first" THEN << <<"transpose">> >> ELSE << >>
            stem == IF args.deep_stem THEN <<"conv1">> ELSE <<"Conv2D">>
            drop == IF args.final_drop > 0 THEN << <<"Dropout">> >> ELSE << >>
            body == << stem, <<"BatchNormalization">>, <<"Activation">>, <<"MaxPool2D">>, <<"stage", 1>>, <<"stage", 2>>, <<"stage", 3>>, <<"stage", 4>>, <<"GlobalAveragePooling2D">>, <<"Flatten">> >>
            n == Len(x)
        IN  /\ [k \in 1 .. n |-> ComponentOf(x[k])] = pre \o body \o drop \o << <<"Dense">> >>
            /\ SubSeq(x, Len(pre) + 1, Len(pre) + 10) = <<model.conv1, model.bn1, model.relu, model.maxpool, model.layer1, model.layer2, model.layer3, model.layer4, model.avgpool, model.flat>>
            /\ x[n] = model.fc /\ x[n].units = args.classes
            /\ args.final_drop > 0 => x[n - 1] = model.drop /\ x[n - 1].rate = args.final_drop

\* a channels-first network with final dropout has been run: thirteen steps,
\* the transpose first and the dropout just before the dense layer
C11_Witness ==
    /\ pc = "called"
    /\ args.data_format = "channels_first"
    /\ args.final_drop > 0
    /\ Len(x) = 13
    /\ x[1].kind = "transpose"
    /\ x[12].kind = "Dropout"
    /\ x[13].kind = "Dense"

(* -------------------------------- C12 ---------------------------------- *)

\* the channels leaving the stem: the filters of its last convolution
StemChannels(m) ==
    IF m.conv1.kind = "list"
    THEN LET convs == {k \in 1 .. Len(m.conv1.items) : m.conv1.items[k].kind = "Conv2D"}
         IN  m.conv1.items[CHOOSE k \in convs : \A q \in convs : q <= k].filters
    ELSE m.conv1.filters

\* the channels entering block j of stage i: what the block before it produces
InputChannels(m, i, j) ==
    IF j > 1 THEN LastConv(m[LayerField(i)].items[j - 1]).filters
    ELSE IF i = 1 THEN StemChannels(m)
    ELSE LET prev == m[LayerField(i - 1)].items IN LastConv(prev[Len(prev)]).filters

\* the filter counts of the convolutions of a downsample list
DownsampleFilters(ds) == {ds.items[k].filters : k \in {q \in 1 .. Len(ds.items) : ds.items[q].kind = "Conv2D"}}

\* C12: in every network built by the assembler, each block's skip path and main
\* path agree at the residual add: a block without downsample has stride 1 and
\* an input channel count of planes * expansion; in a block with a downsample,
\* the downsample's total stride (pool stride times conv stride) is the block's
\* main-path stride and its convolution has planes * expansion filters.
C12_ResidualShapes ==
    pc \in {"built", "called"} =>
        \A i \in 1 .. 4 : \A j \in 1 .. Len(model[LayerField(i)].items) :
            LET b == model[LayerField(i)].items[j]
                out == b.init.planes * (IF b.block = "BasicBlockV1b" THEN 1 ELSE 4)
            IN  /\ LastConv(b).filters = out
                /\ IF HasDownsample(b)
                   THEN /\ ListStride(b.downsample) = BlockStride(b)
                        /\ DownsampleFilters(b.downsample) = {out}
                   ELSE /\ BlockStride(b) = 1
                        /\ InputChannels(model, i, j) = out

\* a dilated, average-down basic-block network has been built: its first block
\* adds the input unchanged, and the skip path of stage 4 pools with kernel 1
C12_Witness ==
    /\ pc = "built"
    /\ args.block = "BasicBlockV1b"
    /\ args.avg_down
    /\ args.dilated
    /\ ~HasDownsample(model.layer1.items[1])
    /\ model.layer4.items[1].downsample.items[1].pool_size = 1
    /\ model.layer2.items[1].downsample.items[1].strides = 2

(* -------------------------------- C13 ---------------------------------- *)

\* C13: for a supported dilation, the stage returned for a requested block count
\* n holds exactly max(1, n) blocks: the first block, with the stage's stride and
\* downsample, is always built and the accumulated channel count is always
\* updated, also when n is 0 or negative, so a stage is never empty.
C13_NeverEmpty ==
    (call # None /\ call.input.dilation \in {1, 2, 4}) =>
        LET c == call.input
            bs == BlocksOf(call.result.layers)
            out == c.planes * expansion(c.block)
        IN  /\ ~call.result.raised
            /\ Len(bs) = (IF c.blocks > 1 THEN c.blocks ELSE 1)
            /\ bs[1].block = c.block
            /\ bs[1].init.planes = c.planes
            /\ bs[1].strides = c.strides /\ MainConv(bs[1]).strides = c.strides
            /\ HasDownsample(bs[1]) <=> (c.strides # 1 \/ c.inplanes # out)
            /\ call.result.inplanes = out
            /\ model.inplanes = out

\* a stage asked for with zero blocks was returned with its one strided,
\* downsampling first block, and the channel count moved from 64 to 512
C13_Witness ==
    /\ pc = "returned"
    /\ call.input.blocks = 0
    /\ Len(BlocksOf(call.result.layers)) = 1
    /\ call.input.strides = 2
    /\ HasDownsample(BlocksOf(call.result.layers)[1])
    /\ call.input.inplanes = 64
    /\ model.inplanes = 512

====
